---- MODULE Spec2Model ----
(***************************************************************************)
(* Token-to-Frequency Streaming Protocol (tfsp).                           *)
(*                                                                         *)
(* The module models                                                       *)
(*   - TokenBuffer (src/src/tfsp/buffer.py): add / flush and the awaited   *)
(*     flush handler on_flush;                                             *)
(*   - the streaming pipeline run_stream (src/main.py) with its handler    *)
(*     on_buffer_flush (encode, then play every tone);                     *)
(*   - the encoders (src/src/tfsp/encoders/*.py) as pure operators;        *)
(*   - generate_tone (src/src/tfsp/audio/tone.py) with a symbolic sine.    *)
(*                                                                         *)
(* Text is a sequence of Unicode code points (ord of each character).      *)
(* Frequencies are exact rationals kept as integers in units of 1/255 Hz   *)
(* (the single-tone encoders divide the code point by 255).                *)
(***************************************************************************)
EXTENDS Integers, Sequences, FiniteSets, TLC

\* ---------------------------------------------------------------- bounds
\* Largest buffer_size / --buffer-tokens a run is constructed with.
MaxThreshold == 3
\* Largest number of add / flush calls the client of Spec makes.
MaxOps == 5
\* Largest number of chunks the provider of run_stream yields.
MaxChunks == 3
\* Largest tone_duration_ms / --tone-duration a run is constructed with.
MaxDuration == 2
\* Longest text handed to encode in SpecEnc.
MaxTextLen == 2

\* The fragments a producer delivers: the empty string, "H", "i" + U+0100.
Fragments == { <<>>, <<72>>, <<105, 256>> }

\* The code points texts are built from: NUL, 'H', U+00FF, U+0100 (the first
\* one above the 2-hex-digit range), the euro sign, the last code point.
CodePoints == { 0, 72, 255, 256, 8364, 1114111 }

\* buffer_size values a TokenBuffer is constructed with (__init__ takes any
\* int; 0 stands for the values below 1).
Thresholds == 0..MaxThreshold

\* tone_duration_ms values an encoder is constructed with (__init__ takes any
\* int; -1 and 0 stand for the values that are not positive).
Durations == (-1)..MaxDuration

VARIABLES
    buffer_size,      \* TokenBuffer.buffer_size
    on_flush,         \* TokenBuffer.on_flush: which handler was injected
    _buffer,          \* TokenBuffer._buffer
    _token_count,     \* TokenBuffer._token_count
    encoder,          \* which encoder class was constructed ("none" before)
    tone_duration_ms, \* encoder.tone_duration_ms
    pc,               \* where the calling coroutine is
    running,          \* the flush() coroutines suspended in `await on_flush(..)`
    calls,            \* the texts on_flush was invoked with, in invocation order
    trace,            \* the add / flush calls made so far, in call order
    last,             \* how the most recently completed call ended
    failed,           \* whether any on_flush invocation has raised so far
    rendered,         \* the tones AudioPlayer.play has played, in order
    text,             \* the argument of the latest encode call
    frame,            \* the EncodedFrame the latest encode call returned
    bps,              \* what the latest read of theoretical_speed_bps gave
    tone_args,        \* the arguments of the latest generate_tone call
    samples           \* what the latest generate_tone call returned

vars == << buffer_size, on_flush, _buffer, _token_count, encoder,
           tone_duration_ms, pc, running, calls, trace, last, failed,
           rendered, text, frame, bps, tone_args, samples >>

bufferVars  == << buffer_size, on_flush, _buffer, _token_count >>
encoderVars == << encoder, tone_duration_ms >>
encodeVars  == << text, frame, bps, tone_args, samples >>

NoCall == [op |-> "none", flushed |-> FALSE, outcome |-> "none"]
NoFrame == [tones |-> <<>>, original_text |-> <<>>, returned |-> FALSE]
NoRead == [read |-> FALSE, raised |-> FALSE, num |-> 0, den |-> 1]
NoToneArgs == [frequencies |-> <<>>, duration_ms |-> 0, sample_rate |-> 0]
NoSamples == [returned |-> FALSE, raised |-> FALSE]

\* str concatenation of a sequence of texts.
RECURSIVE Concat(_)
Concat(ss) == IF ss = <<>> THEN <<>> ELSE Head(ss) \o Concat(Tail(ss))

\* ------------------------------------------------------------- encoders

\* The denominator of every frequency of the model: a frequency f Hz is the
\* integer f * FreqUnit (fsk.py:37 and ultrasonic.py:52 divide by 255).
FreqUnit == 255

\* float(n) for a whole number of Hz.
Hz(n) == n * FreqUnit

\* encoders/base.py:5-10  ToneEvent
ToneEvent(frequencies, duration_ms) ==
    [frequencies |-> frequencies, duration_ms |-> duration_ms]

\* encoders/base.py:13-18  EncodedFrame; `returned` tells a frame that an
\* encode call returned from the placeholder before any call.
EncodedFrame(tones, original_text) ==
    [tones |-> tones, original_text |-> original_text, returned |-> TRUE]

\* dtmf.py:11-28
LOW_FREQUENCIES ==
    [s \in {"1", "2", "3", "A", "4", "5", "6", "B",
            "7", "8", "9", "C", "*", "0", "#", "D"} |->
        CASE s \in {"1", "2", "3", "A"} -> 697
          [] s \in {"4", "5", "6", "B"} -> 770
          [] s \in {"7", "8", "9", "C"} -> 852
          [] s \in {"*", "0", "#", "D"} -> 941]

\* dtmf.py:30-47
HIGH_FREQUENCIES ==
    [s \in {"1", "2", "3", "A", "4", "5", "6", "B",
            "7", "8", "9", "C", "*", "0", "#", "D"} |->
        CASE s \in {"1", "4", "7", "*"} -> 1209
          [] s \in {"2", "5", "8", "0"} -> 1336
          [] s \in {"3", "6", "9", "#"} -> 1477
          [] s \in {"A", "B", "C", "D"} -> 1633]

\* dtmf.py:51-74
HEX_TO_DTMF ==
    [d \in {"0", "1", "2", "3", "4", "5", "6", "7", "8", "9",
            "a", "b", "c", "d", "e", "f", "A", "B", "C", "D", "E", "F"} |->
        CASE d \in {"a", "A"} -> "A"
          [] d \in {"b", "B"} -> "B"
          [] d \in {"c", "C"} -> "C"
          [] d \in {"d", "D"} -> "D"
          [] d \in {"e", "E"} -> "*"
          [] d \in {"f", "F"} -> "#"
          [] OTHER -> d]

\* The digits the format type `x` writes, by value.
HexDigit == << "0", "1", "2", "3", "4", "5", "6", "7", "8", "9",
               "a", "b", "c", "d", "e", "f" >>

\* format(n, "x"): the lowercase hex digits of n >= 0, most significant
\* first, as many as n needs.
RECURSIVE format_x(_)
format_x(n) ==
    IF n < 16 THEN << HexDigit[n + 1] >>
    ELSE format_x(n \div 16) \o << HexDigit[(n % 16) + 1] >>

\* dtmf.py:99  f"{ascii_code:02x}": width 2 is a minimum; the digits are
\* zero-padded up to it and never cut down to it.
format_02x(n) ==
    LET h == format_x(n) IN IF Len(h) < 2 THEN << "0" >> \o h ELSE h

\* Mutant of _char_to_dtmf_symbols: the low-order hex digit comes first.
_char_to_dtmf_symbols_low_first(char) ==
    LET hex_str == format_02x(char)
    IN  [k \in DOMAIN hex_str |-> HEX_TO_DTMF[hex_str[Len(hex_str) + 1 - k]]]

\* dtmf.py:95-102  _char_to_dtmf_symbols
_char_to_dtmf_symbols(char) ==
    LET ascii_code == char
        hex_str == format_02x(ascii_code)
    IN  [k \in DOMAIN hex_str |-> HEX_TO_DTMF[hex_str[k]]]

\* dtmf.py:104-109  _symbol_to_frequencies
_symbol_to_frequencies(symbol) ==
    << Hz(LOW_FREQUENCIES[symbol]), Hz(HIGH_FREQUENCIES[symbol]) >>

\* dtmf.py:111-136  DTMFEncoder.encode: the tones of the text, character by
\* character and symbol by symbol.
RECURSIVE DTMF_tones(_, _)
DTMF_tones(t, duration) ==
    IF t = <<>> THEN <<>>
    ELSE LET symbols == _char_to_dtmf_symbols(Head(t))
         IN  [k \in DOMAIN symbols |->
                 ToneEvent(_symbol_to_frequencies(symbols[k]), duration)]
             \o DTMF_tones(Tail(t), duration)

DTMF_encode(t, duration) == EncodedFrame(DTMF_tones(t, duration), t)

\* fsk.py:4-6
FSK_MIN_FREQUENCY == 400
FSK_MAX_FREQUENCY == 2000
FSK_FREQUENCY_RANGE == FSK_MAX_FREQUENCY - FSK_MIN_FREQUENCY

\* ultrasonic.py:15-17
ULTRASONIC_MIN_FREQUENCY == 15000
ULTRASONIC_MAX_FREQUENCY == 20000
ULTRASONIC_FREQUENCY_RANGE == ULTRASONIC_MAX_FREQUENCY - ULTRASONIC_MIN_FREQUENCY

\* ultrasonic.py:20
DEFAULT_TONE_DURATION_MS == 5

Min(a, b) == IF a < b THEN a ELSE b
Max(a, b) == IF a > b THEN a ELSE b

\* Mutant of clamp: the code point is used as it is.
clamp_none(ascii_code) == ascii_code

\* fsk.py:33-35, ultrasonic.py:49-50  max(0, min(255, ord(char)))
clamp(ascii_code) == Max(0, Min(255, ascii_code))

\* Mutant of FSK_char_to_frequency: floor division (ascii_code // 255).
FSK_char_to_frequency_floordiv(char) ==
    Hz(FSK_MIN_FREQUENCY) + Hz((clamp(char) \div 255) * FSK_FREQUENCY_RANGE)

\* fsk.py:26-38  FSKEncoder._char_to_frequency, in units of 1/FreqUnit Hz:
\* MIN_FREQUENCY + (ascii_code / 255) * FREQUENCY_RANGE
FSK_char_to_frequency(char) ==
    Hz(FSK_MIN_FREQUENCY) + clamp(char) * FSK_FREQUENCY_RANGE

\* Mutant of Ultrasonic_char_to_frequency: the code point is cut to its low
\* byte (ascii_code & 0xFF) where the code clamps it.
Ultrasonic_char_to_frequency_wraps(char) ==
    Hz(ULTRASONIC_MIN_FREQUENCY) + (char % 256) * ULTRASONIC_FREQUENCY_RANGE

\* ultrasonic.py:42-53  UltrasonicEncoder._char_to_frequency
Ultrasonic_char_to_frequency(char) ==
    Hz(ULTRASONIC_MIN_FREQUENCY) + clamp(char) * ULTRASONIC_FREQUENCY_RANGE

\* Mutant of FSK_encode: a differential code, each character offset by the
\* one before it.
FSK_encode_differential(t, duration) ==
    EncodedFrame([k \in DOMAIN t |->
                     ToneEvent(<< FSK_char_to_frequency(
                                     IF k = 1 THEN t[k]
                                     ELSE (t[k] + t[k - 1]) % 256) >>,
                               duration)], t)

\* fsk.py:40-63  FSKEncoder.encode
FSK_encode(t, duration) ==
    EncodedFrame([k \in DOMAIN t |->
                     ToneEvent(<< FSK_char_to_frequency(t[k]) >>, duration)], t)

\* ultrasonic.py:55-79  UltrasonicEncoder.encode
Ultrasonic_encode(t, duration) ==
    EncodedFrame([k \in DOMAIN t |->
                     ToneEvent(<< Ultrasonic_char_to_frequency(t[k]) >>, duration)], t)

\* Python's `/` on two ints, kept exact: the quotient as a fraction.
TrueDiv(a, b) == [num |-> a, den |-> b]

\* Mutant of theoretical_speed_bps: 4 bits per symbol, as for a hex digit.
theoretical_speed_bps_nibble(duration) ==
    IF duration = 0
    THEN [read |-> TRUE, raised |-> TRUE, num |-> 0, den |-> 1]
    ELSE [read |-> TRUE, raised |-> FALSE, num |-> 1000 * 4, den |-> duration]

\* ultrasonic.py:81-86  theoretical_speed_bps: (1000 / tone_duration_ms) * 8 as
\* a fraction num/den; with a duration of 0 the division raises
\* ZeroDivisionError.  Nothing is assigned.
theoretical_speed_bps(duration) ==
    IF duration = 0
    THEN [read |-> TRUE, raised |-> TRUE, num |-> 0, den |-> 1]
    ELSE LET symbols_per_sec == TrueDiv(1000, duration)
             bits_per_symbol == 8
         IN  [read |-> TRUE, raised |-> FALSE,
              num |-> symbols_per_sec.num * bits_per_symbol,
              den |-> symbols_per_sec.den]

\* encoder.encode(text) of the encoder object that was constructed.
encode(kind, t, duration) ==
    CASE kind = "dtmf" -> DTMF_encode(t, duration)
      [] kind = "fsk" -> FSK_encode(t, duration)
      [] kind = "ultrasonic" -> Ultrasonic_encode(t, duration)

\* dtmf.py:86-93, fsk.py:17-24, ultrasonic.py:33-40  __init__ of the three
\* encoders: the duration is stored as given, without validation.
EncoderInit(kind, duration) ==
    /\ encoder' = kind
    /\ tone_duration_ms' = duration

\* main.py:59-70  on_buffer_flush up to play_tones: the frame is encoded and
\* its tones are what the handler has to play.  An opaque handler has none.
HandlerTones(t) ==
    IF on_flush = "on_buffer_flush"
    THEN encode(encoder, t, tone_duration_ms).tones
    ELSE <<>>

\* ---------------------------------------------------------- TokenBuffer

\* buffer.py:23-26  __init__: the fields as the constructor leaves them.
\* No argument is validated.
TokenBufferInit(size, handler) ==
    /\ buffer_size' = size
    /\ on_flush' = handler
    /\ _buffer' = <<>>
    /\ _token_count' = 0

\* Mutant of flush_invokes: the `if self._buffer:` test left out.
flush_invokes_always(buf) == TRUE

\* buffer.py:43  `if self._buffer:` -- flush invokes the handler or not.
flush_invokes(buf) == buf # <<>>

\* buffer.py:41-44  flush() entered with the buffer holding (buf, cnt); `via`
\* is the call the client made ("add" or "flush") and `ret` the client's
\* position once that call returns.  Either the handler is invoked with the
\* whole buffer and the coroutine is suspended in the await, or flush returns
\* at once.
flush(via, ret, buf, cnt) ==
    /\ _buffer' = buf
    /\ _token_count' = cnt
    /\ IF flush_invokes(buf)
       THEN /\ calls' = Append(calls, buf)
            /\ running' = Append(running, [text |-> buf, via |-> via,
                                           ret |-> ret,
                                           tones |-> HandlerTones(buf)])
            /\ pc' = "awaiting"
            /\ last' = last
       ELSE /\ calls' = calls
            /\ running' = running
            /\ pc' = ret
            /\ last' = [op |-> via, flushed |-> TRUE, outcome |-> "returned"]

\* buffer.py:35  self._buffer += text
add_buffer(buf, t) == buf \o t

\* Mutant of add_count: the counter counts characters, not fragments.
add_count_by_len(cnt, t) == cnt + Len(t)

\* buffer.py:36  self._token_count += 1
add_count(cnt, t) == cnt + 1

\* Mutant of add_triggers: `>` in place of `>=`.
add_triggers_late(cnt, size) == cnt > size

\* buffer.py:38  if self._token_count >= self.buffer_size
add_triggers(cnt, size) == cnt >= size

\* buffer.py:28-39  add(text), up to its return or its suspension in flush.
add(t, ret) ==
    LET buf == add_buffer(_buffer, t)
        cnt == add_count(_token_count, t)
    IN  /\ trace' = Append(trace, [op |-> "add", text |-> t])
        /\ IF add_triggers(cnt, buffer_size)
           THEN flush("add", ret, buf, cnt)
           ELSE /\ _buffer' = buf
                /\ _token_count' = cnt
                /\ calls' = calls
                /\ running' = running
                /\ pc' = ret
                /\ last' = [op |-> "add", flushed |-> FALSE,
                            outcome |-> "returned"]

\* Mutant of flush_resume: the counter is reset and the text is not
\* (`self._buffer = ""` left out).
flush_resume_keeps_text(i) ==
    /\ _buffer' = _buffer
    /\ _token_count' = 0
    /\ running' = SubSeq(running, 1, i - 1) \o SubSeq(running, i + 1, Len(running))
    /\ pc' = running[i].ret
    /\ last' = [op |-> running[i].via, flushed |-> TRUE, outcome |-> "returned"]

\* buffer.py:45-46  the handler of running[i] returned: flush resumes, clears
\* the buffer and the counter, and the awaiting call returns.
flush_resume(i) ==
    /\ _buffer' = <<>>
    /\ _token_count' = 0
    /\ running' = SubSeq(running, 1, i - 1) \o SubSeq(running, i + 1, Len(running))
    /\ pc' = running[i].ret
    /\ last' = [op |-> running[i].via, flushed |-> TRUE, outcome |-> "returned"]

\* Mutant of flush_raise: the reset placed in a `finally:`, so that it also runs
\* when the handler raises.
flush_raise_resets(i, ret) ==
    /\ _buffer' = <<>>
    /\ _token_count' = 0
    /\ running' = SubSeq(running, 1, i - 1) \o SubSeq(running, i + 1, Len(running))
    /\ pc' = ret
    /\ last' = [op |-> running[i].via, flushed |-> TRUE, outcome |-> "raised"]
    /\ failed' = TRUE

\* buffer.py:44  the handler of running[i] raised: nothing catches it, lines
\* 45-46 are skipped and the error leaves flush (and add) towards the caller.
flush_raise(i, ret) ==
    /\ _buffer' = _buffer
    /\ _token_count' = _token_count
    /\ running' = SubSeq(running, 1, i - 1) \o SubSeq(running, i + 1, Len(running))
    /\ pc' = ret
    /\ last' = [op |-> running[i].via, flushed |-> TRUE, outcome |-> "raised"]
    /\ failed' = TRUE

\* ------------------------------------------- Spec: a sequential client
\* One coroutine that constructs a TokenBuffer around an opaque handler and
\* then awaits add / flush calls one after the other, in any order, with any
\* fragment; the handler returns or raises.

Init ==
    /\ buffer_size = 0
    /\ on_flush = "none"
    /\ _buffer = <<>>
    /\ _token_count = 0
    /\ encoder = "none"
    /\ tone_duration_ms = 0
    /\ pc = "new"
    /\ running = <<>>
    /\ calls = <<>>
    /\ trace = <<>>
    /\ last = NoCall
    /\ failed = FALSE
    /\ rendered = <<>>
    /\ text = <<>>
    /\ frame = NoFrame
    /\ bps = NoRead
    /\ tone_args = NoToneArgs
    /\ samples = NoSamples

\* TokenBuffer(size, handler)
Construct ==
    /\ pc = "new"
    /\ \E size \in Thresholds : TokenBufferInit(size, "handler")
    /\ pc' = "idle"
    /\ UNCHANGED << encoderVars, running, calls, trace, last, failed,
                    rendered, encodeVars >>

\* await buffer.add(t)
CallAdd ==
    /\ pc = "idle"
    /\ Len(trace) < MaxOps
    /\ \E t \in Fragments : add(t, "idle")
    /\ UNCHANGED << buffer_size, on_flush, encoderVars, failed, rendered,
                    encodeVars >>

\* await buffer.flush()
CallFlush ==
    /\ pc = "idle"
    /\ Len(trace) < MaxOps
    /\ trace' = Append(trace, [op |-> "flush", text |-> <<>>])
    /\ flush("flush", "idle", _buffer, _token_count)
    /\ UNCHANGED << buffer_size, on_flush, encoderVars, failed, rendered,
                    encodeVars >>

\* The opaque handler returns.
HandlerReturns ==
    /\ on_flush = "handler"
    /\ \E i \in DOMAIN running : flush_resume(i)
    /\ UNCHANGED << buffer_size, on_flush, encoderVars, calls, trace, failed,
                    rendered, encodeVars >>

\* The opaque handler raises; the client catches the error and goes on.
HandlerRaises ==
    /\ on_flush = "handler"
    /\ \E i \in DOMAIN running : flush_raise(i, "idle")
    /\ UNCHANGED << buffer_size, on_flush, encoderVars, calls, trace,
                    rendered, encodeVars >>

Next ==
    \/ Construct
    \/ CallAdd
    \/ CallFlush
    \/ HandlerReturns
    \/ HandlerRaises

Spec == Init /\ [][Next]_vars

\* ------------------------- SpecTasks: callers that are not serialized
\* The same buffer used from several asyncio tasks (asyncio.create_task(
\* buffer.add(t))): a call may start while the flush of an earlier call is
\* suspended in `await self.on_flush(...)`.  The steps between two awaits
\* are atomic (one thread, cooperative scheduling).

\* The number of add and flush calls the tasks make.
MaxTasks == 4

\* buffer.py:28-39  a task calls add(t); an earlier flush may be suspended.
TaskAdd ==
    /\ pc \in {"idle", "awaiting"}
    /\ Len(trace) < MaxTasks
    /\ \E t \in Fragments : add(t, "idle")
    /\ UNCHANGED << buffer_size, on_flush, encoderVars, failed, rendered,
                    encodeVars >>

\* buffer.py:41-46  a task calls flush(); an earlier flush may be suspended.
TaskFlush ==
    /\ pc \in {"idle", "awaiting"}
    /\ Len(trace) < MaxTasks
    /\ trace' = Append(trace, [op |-> "flush", text |-> <<>>])
    /\ flush("flush", "idle", _buffer, _token_count)
    /\ UNCHANGED << buffer_size, on_flush, encoderVars, failed, rendered,
                    encodeVars >>

NextTasks ==
    \/ Construct
    \/ TaskAdd
    \/ TaskFlush
    \/ HandlerReturns
    \/ HandlerRaises

SpecTasks == Init /\ [][NextTasks]_vars

\* ------------------------------------- SpecStream: main.py run_stream
\* The pipeline of run_stream in one of its three tone modes: the encoder and
\* the buffer are constructed from the command line, every chunk of the
\* provider is added and awaited, and one flush drains the rest.  The handler
\* is on_buffer_flush: encode, then play the tones one by one, blocking.

\* main.py:230  --tone-duration default
TONE_DURATION_DEFAULT == 100
\* main.py:48  the duration run_stream gives the ultrasonic encoder when
\* --tone-duration was left at its default
ULTRASONIC_STREAM_DURATION == 5

\* main.py:223-231  --buffer-tokens and --tone-duration are type=int and are
\* not range-checked.
ToneDurationArgs == Durations \cup {TONE_DURATION_DEFAULT}

\* main.py:40-73  the encoder, the player and the buffer are constructed.
RunStreamSetup ==
    /\ pc = "new"
    /\ \E mode \in {"dtmf", "fsk", "ultrasonic"}, tone_duration \in ToneDurationArgs :
          EncoderInit(mode,
                      IF mode = "ultrasonic" /\ tone_duration = TONE_DURATION_DEFAULT
                      THEN ULTRASONIC_STREAM_DURATION ELSE tone_duration)
    /\ \E buffer_tokens \in Thresholds :
          TokenBufferInit(buffer_tokens, "on_buffer_flush")
    /\ pc' = "loop"
    /\ UNCHANGED << running, calls, trace, last, failed, rendered, encodeVars >>

\* Mutant of StreamChunk: the add is started without being awaited
\* (asyncio.create_task(buffer.add(chunk))), so the loop goes on while an
\* earlier add is still inside its flush handler.
StreamChunk_not_awaited ==
    /\ pc \in {"loop", "awaiting"}
    /\ Len(trace) < MaxChunks
    /\ \E chunk \in Fragments : add(chunk, "loop")
    /\ UNCHANGED << buffer_size, on_flush, encoderVars, failed, rendered,
                    encodeVars >>

\* main.py:80-82  the provider yields a chunk; `await buffer.add(chunk)`.
\* The loop asks for the next chunk only when the add has returned.
StreamChunk ==
    /\ pc = "loop"
    /\ Len(trace) < MaxChunks
    /\ \E chunk \in Fragments : add(chunk, "loop")
    /\ UNCHANGED << buffer_size, on_flush, encoderVars, failed, rendered,
                    encodeVars >>

\* main.py:80,85  the provider's stream is exhausted; `await buffer.flush()`.
StreamEnd ==
    /\ pc = "loop"
    /\ trace' = Append(trace, [op |-> "flush", text |-> <<>>])
    /\ flush("flush", "done", _buffer, _token_count)
    /\ UNCHANGED << buffer_size, on_flush, encoderVars, failed, rendered,
                    encodeVars >>

\* main.py:80  the provider fails (transport, authentication): the error
\* leaves run_stream from the `async for`; line 85 is not reached.
ProviderRaises ==
    /\ pc = "loop"
    /\ pc' = "crashed"
    /\ UNCHANGED << bufferVars, encoderVars, running, calls, trace, last,
                    failed, rendered, encodeVars >>

\* player.py:39-45, tone.py:20-21  play_tones: the next tone of the frame is
\* generated and played, blocking.  A negative duration makes
\* np.linspace raise, so such a tone is never played.
PlayTone ==
    /\ on_flush = "on_buffer_flush"
    /\ \E i \in DOMAIN running :
          /\ running[i].tones # <<>>
          /\ Head(running[i].tones).duration_ms >= 0
          /\ rendered' = Append(rendered, Head(running[i].tones))
          /\ running' = [running EXCEPT ![i].tones = Tail(@)]
    /\ UNCHANGED << bufferVars, encoderVars, pc, calls, trace, last, failed,
                    encodeVars >>

\* Mutant of StreamHandlerReturns: play_tones does not block (sd.play
\* without sd.wait), so the handler returns while tones are still to be played.
StreamHandlerReturns_not_blocking ==
    /\ on_flush = "on_buffer_flush"
    /\ \E i \in DOMAIN running : flush_resume(i)
    /\ UNCHANGED << buffer_size, on_flush, encoderVars, calls, trace, failed,
                    rendered, encodeVars >>

\* player.py:28-30,39-45, main.py:70, buffer.py:44-46  every tone has been
\* played and waited for; play_tones and on_buffer_flush return and flush
\* resumes.
StreamHandlerReturns ==
    /\ on_flush = "on_buffer_flush"
    /\ \E i \in DOMAIN running :
          /\ running[i].tones = <<>>
          /\ flush_resume(i)
    /\ UNCHANGED << buffer_size, on_flush, encoderVars, calls, trace, failed,
                    rendered, encodeVars >>

\* player.py:28, tone.py:21  generating or playing a tone raises (the sound
\* device, a negative sample count); nothing in on_buffer_flush, flush, add or
\* run_stream catches it.
StreamHandlerRaises ==
    /\ on_flush = "on_buffer_flush"
    /\ \E i \in DOMAIN running :
          /\ running[i].tones # <<>>
          /\ flush_raise(i, "crashed")
    /\ UNCHANGED << buffer_size, on_flush, encoderVars, calls, trace,
                    rendered, encodeVars >>

NextStream ==
    \/ RunStreamSetup
    \/ StreamChunk
    \/ StreamEnd
    \/ ProviderRaises
    \/ PlayTone
    \/ StreamHandlerReturns
    \/ StreamHandlerRaises

SpecStream == Init /\ [][NextStream]_vars

\* --------------------------------------- SpecEnc: the encoders alone
\* An encoder of any of the three classes is constructed with any duration
\* and encode is applied to texts over CodePoints.

\* The texts of at most n code points.
RECURSIVE TextsUpTo(_)
TextsUpTo(n) ==
    IF n = 0 THEN { <<>> }
    ELSE LET shorter == TextsUpTo(n - 1)
         IN  shorter \cup { Append(t, c) : t \in shorter, c \in CodePoints }

\* Every text of at most MaxTextLen of the code points above, and every
\* one-character text of the 2-hex-digit range.
Texts == TextsUpTo(MaxTextLen) \cup { << c >> : c \in 0..255 }

\* DTMFEncoder(d), FSKEncoder(d), UltrasonicEncoder(d), UltrasonicEncoder()
EncoderConstruct ==
    /\ pc = "new"
    /\ \E kind \in {"dtmf", "fsk", "ultrasonic"},
          duration \in Durations \cup {DEFAULT_TONE_DURATION_MS} :
          EncoderInit(kind, duration)
    /\ pc' = "ready"
    /\ UNCHANGED << bufferVars, running, calls, trace, last, failed, rendered,
                    encodeVars >>

\* frame = encoder.encode(T)
Encode ==
    /\ pc = "ready"
    /\ \E T \in Texts :
          /\ text' = T
          /\ frame' = encode(encoder, T, tone_duration_ms)
    /\ UNCHANGED << bufferVars, encoderVars, pc, running, calls, trace, last,
                    failed, rendered, bps, tone_args, samples >>

\* speed = encoder.theoretical_speed_bps  (UltrasonicEncoder only)
ReadSpeed ==
    /\ pc = "ready"
    /\ encoder = "ultrasonic"
    /\ bps' = theoretical_speed_bps(tone_duration_ms)
    /\ UNCHANGED << bufferVars, encoderVars, pc, running, calls, trace, last,
                    failed, rendered, text, frame, tone_args, samples >>

NextEnc ==
    \/ EncoderConstruct
    \/ Encode
    \/ ReadSpeed

SpecEnc == Init /\ [][NextEnc]_vars

\* ------------------------------------- SpecTone: generate_tone alone

\* Frequency lists, durations (ms) and sample rates handed to generate_tone:
\* the empty list, one audible tone, a DTMF pair and the top of the
\* ultrasonic band; durations below, at and above twice the fade length; the
\* player's rate and rates whose fade length is 0, 1 and 10 samples.
ToneFrequencies ==
    { <<>>, << Hz(440) >>, << Hz(697), Hz(1209) >>, << Hz(20000) >> }
ToneDurations == { -1, 0, 1, 5, 6, 20, 21, 40 }
SampleRates == { 50, 150, 1000, 44100 }

\* int(x) of a quotient a / b with b > 0: truncation toward zero.
TruncDiv(a, b) == IF a >= 0 THEN a \div b ELSE -((-a) \div b)

\* tone.py:20  num_samples = int(sample_rate * duration_ms / 1000)
num_samples(sample_rate, duration_ms) ==
    TruncDiv(sample_rate * duration_ms, 1000)

\* np.linspace(a/d, b/d, n)[j], j = 0..n-1, endpoint included: the exact
\* rational a/d + j * (b - a) / (d * (n - 1)); a single point is the start.
linspace(a, b, d, n, j) ==
    IF n = 1 THEN [num |-> a, den |-> d]
    ELSE [num |-> a * (n - 1) + j * (b - a), den |-> d * (n - 1)]

\* tone.py:21  t = np.linspace(0, duration_ms / 1000, num_samples)
tone_times(duration_ms, n) ==
    [k \in 1..n |-> linspace(0, duration_ms, 1000, n, k - 1)]

\* Mutant of tone_divisor: the sum is always divided by the list's length.
tone_divisor_unguarded(frequencies) == Len(frequencies)

\* tone.py:29-30  the sum of the sines is divided by the number of
\* frequencies only when there is one.
tone_divisor(frequencies) ==
    IF Len(frequencies) > 0 THEN Len(frequencies) ELSE 1

\* tone.py:33  fade_samples = int(sample_rate * 0.01); the product is exact
\* in floating point for every rate of SampleRates.
fade_samples(sample_rate) == sample_rate \div 100

\* Mutant of envelope_applies: a tone of exactly twice the fade length is
\* enveloped too.
envelope_applies_at_twice(fade, n) == fade > 0 /\ n >= 2 * fade

\* tone.py:34  the condition under which the envelope is applied.
envelope_applies(fade, n) == fade > 0 /\ n > 2 * fade

\* tone.py:35-38  the factor sample k (1-based) is multiplied by: fade_in
\* over the first fade samples, fade_out over the last, 1 in between.
tone_gain(fade, n, k) ==
    IF k <= fade THEN linspace(0, 1, 1, fade, k - 1)
    ELSE IF k > n - fade THEN linspace(1, 0, 1, fade, k - 1 - (n - fade))
    ELSE [num |-> 1, den |-> 1]

\* tone.py:4-40  generate_tone.  Sample k of the result is
\*   gain[k] * SUM over f in sines of sin(2 pi f t[k]) / divisor.
\* A negative sample count makes np.linspace raise ValueError.
generate_tone(frequencies, duration_ms, sample_rate) ==
    LET n    == num_samples(sample_rate, duration_ms)
        fade == fade_samples(sample_rate)
        env  == envelope_applies(fade, n)
    IN  IF n < 0
        THEN [returned |-> FALSE, raised |-> TRUE]
        ELSE [returned  |-> TRUE,
              raised    |-> FALSE,
              t         |-> tone_times(duration_ms, n),
              sines     |-> frequencies,
              divisor   |-> tone_divisor(frequencies),
              enveloped |-> env,
              gain      |-> [k \in 1..n |->
                              IF env THEN tone_gain(fade, n, k)
                              ELSE [num |-> 1, den |-> 1]]]

\* tone.py:4-8  one call of generate_tone.
GenerateTone ==
    /\ \E fs \in ToneFrequencies, d \in ToneDurations, r \in SampleRates :
          /\ tone_args' = [frequencies |-> fs, duration_ms |-> d,
                           sample_rate |-> r]
          /\ samples' = generate_tone(fs, d, r)
    /\ UNCHANGED << bufferVars, encoderVars, pc, running, calls, trace, last,
                    failed, rendered, text, frame, bps >>

NextTone == GenerateTone

SpecTone == Init /\ [][NextTone]_vars

\* ------------------------------------------------ claims on TokenBuffer

\* The step is an add call / an explicit flush call / the end of a handler.
AddCalled   == Len(trace') = Len(trace) + 1 /\ trace'[Len(trace')].op = "add"
FlushCalled == Len(trace') = Len(trace) + 1 /\ trace'[Len(trace')].op = "flush"
HandlerRaised == Len(running') < Len(running) /\ last'.outcome = "raised"

AddsOf(tr)    == SelectSeq(tr, LAMBDA r : r.op = "add")
FlushesOf(tr) == SelectSeq(tr, LAMBDA r : r.op = "flush")
TextsOf(tr)   == [k \in DOMAIN tr |-> tr[k].text]
AllNonEmptyAdds(tr) == \A k \in DOMAIN tr : tr[k].op = "add" /\ tr[k].text # <<>>

\* C1: after any flush() that returns without raising, called explicitly or
\* triggered inside add, the accumulated text is empty and the pending-fragment
\* counter is zero, whatever the fragments were (empty strings included).
C1_AfterFlushEmptyAndZero ==
    (pc = "idle" /\ last.flushed /\ last.outcome = "returned")
        => (_buffer = <<>> /\ _token_count = 0)

\* C2: with threshold >= 1 and a handler that never fails, the pending-fragment
\* counter never exceeds the configured threshold.
C2_CounterWithinThreshold ==
    (pc # "new" /\ buffer_size >= 1 /\ ~failed) => _token_count <= buffer_size

\* C3: when the flush handler raises, the error reaches the caller and the
\* buffer is as it was when the handler was invoked (text intact, counter not
\* reset); a flush called next re-delivers the same text to the handler.
C3_RaiseLeavesBufferIntact ==
    [][ /\ HandlerRaised =>
            /\ _buffer' = _buffer
            /\ _token_count' = _token_count
            /\ _buffer' = calls[Len(calls)]
            /\ _token_count' >= 1
            /\ pc' = "idle"
        /\ (pc = "idle" /\ last.outcome = "raised" /\ FlushCalled) =>
            calls' = Append(calls, calls[Len(calls)]) ]_vars

\* C3 witness: a handler raised, and the flush called right after it was
\* handed the same text and completed.
C3_Witness ==
    /\ failed /\ pc = "idle" /\ last.outcome = "returned"
    /\ Len(calls) = 2 /\ calls[1] = calls[2]
    /\ Len(trace) = 2 /\ trace[2].op = "flush"
    /\ _buffer = <<>>

\* C4: a flush() invokes the handler exactly once, with the whole accumulated
\* text, when that text is non-empty, and not at all when it is empty; the
\* handler is never invoked with the empty string, and nothing but a flush
\* invokes it.
C4_HandlerOncePerNonEmptyFlush ==
    /\ [](\A k \in DOMAIN calls : calls[k] # <<>>)
    /\ [][ /\ FlushCalled =>
                calls' = IF _buffer # <<>> THEN Append(calls, _buffer) ELSE calls
           /\ AddCalled =>
                \/ calls' = calls
                \/ /\ calls' = Append(calls, _buffer \o trace'[Len(trace')].text)
                   /\ _token_count + 1 >= buffer_size
           /\ (trace' = trace) => calls' = calls ]_vars

\* C4 witness: of two explicit flushes after one add, the first found text and
\* invoked the handler, the second found none and did not.
C4_Witness ==
    /\ pc = "idle" /\ ~failed /\ buffer_size = 3
    /\ Len(trace) = 3 /\ trace[1].op = "add" /\ trace[1].text # <<>>
    /\ trace[2].op = "flush" /\ trace[3].op = "flush"
    /\ calls = << trace[1].text >>

\* C6: on a fresh buffer with threshold N >= 1, N adds of non-empty fragments
\* invoke the handler not at all during the first N-1 adds and exactly once in
\* the N-th, with the N fragments concatenated in arrival order, and the N-th
\* add returns only after the handler has; an explicit flush right after
\* invokes the handler zero times.
C6_ThresholdFlushOnce ==
    (pc # "new" /\ buffer_size >= 1 /\ ~failed) =>
        /\ (AllNonEmptyAdds(trace) /\ Len(trace) < buffer_size) =>
                (calls = <<>> /\ running = <<>>)
        /\ (AllNonEmptyAdds(trace) /\ Len(trace) = buffer_size) =>
                /\ calls = << Concat(TextsOf(trace)) >>
                /\ pc = "idle" => (running = <<>> /\ _buffer = <<>>)
        /\ ( /\ Len(trace) = buffer_size + 1
             /\ AllNonEmptyAdds(SubSeq(trace, 1, buffer_size))
             /\ trace[Len(trace)].op = "flush" ) =>
                /\ calls = << Concat(TextsOf(SubSeq(trace, 1, buffer_size))) >>
                /\ running = <<>>
                /\ pc = "idle"

\* C6 witness: threshold 3, three non-empty adds, then an explicit flush.
C6_Witness ==
    /\ buffer_size = 3 /\ ~failed /\ pc = "idle"
    /\ Len(trace) = 4 /\ AllNonEmptyAdds(SubSeq(trace, 1, 3))
    /\ trace[4].op = "flush"
    /\ Len(calls) = 1

\* C8: add(fragment) appends the fragment verbatim to the end of the
\* accumulated text and increments the counter by exactly 1, whatever the
\* fragment's length.
C8_AddAppendsAndCountsOne ==
    [][ AddCalled =>
            /\ _buffer' = _buffer \o trace'[Len(trace')].text
            /\ _token_count' = _token_count + 1 ]_vars

\* C8 witness: an empty fragment and a two-character fragment were added, and
\* the counter went up by one for each.
C8_Witness ==
    /\ buffer_size = 3 /\ pc = "idle"
    /\ Len(trace) = 2 /\ trace[1] = [op |-> "add", text |-> <<>>]
    /\ trace[2] = [op |-> "add", text |-> <<105, 256>>]
    /\ _buffer = <<105, 256>> /\ _token_count = 2

\* ------------------------------------------------- claims on run_stream

\* C5: in the streaming pipeline the flush-handler invocations of the buffer
\* never overlap, and no add or flush call (the processing of a new fragment,
\* the flush it may trigger included) starts before the previous handler has
\* returned.
C5_HandlersNeverOverlap ==
    /\ [](Len(running) <= 1)
    /\ [][(AddCalled \/ FlushCalled) => running = <<>>]_vars

\* C5 witness: the pipeline ended after two handler invocations, the first
\* triggered by an add and over before the second began.
C5_Witness ==
    /\ on_flush = "on_buffer_flush" /\ pc = "done" /\ buffer_size = 1
    /\ Len(calls) = 2 /\ running = <<>>
    /\ Len(rendered) >= 2

\* C7: for any fragment stream and any threshold >= 1, once the producer has
\* terminated and the one final flush has returned (no handler having failed),
\* the buffer is empty and the texts passed to the handler, concatenated in
\* invocation order, are the fragments concatenated in arrival order.
C7_NothingLostAtEndOfStream ==
    (on_flush = "on_buffer_flush" /\ pc = "done" /\ buffer_size >= 1) =>
        /\ ~failed
        /\ _buffer = <<>>
        /\ running = <<>>
        /\ Concat(calls) = Concat(TextsOf(AddsOf(trace)))

\* C7 witness: three fragments against a threshold of 2: one flush by
\* threshold and the final flush draining the third fragment.
C7_Witness ==
    /\ on_flush = "on_buffer_flush" /\ pc = "done" /\ buffer_size = 2
    /\ Len(AddsOf(trace)) = 3 /\ AllNonEmptyAdds(AddsOf(trace))
    /\ Len(calls) = 2
    /\ calls[2] = trace[3].text

\* C22: when add or flush is called while the handler of an earlier flush is
\* still suspended, every fragment added is passed to the handler exactly
\* once: once every handler has returned (none having failed) and the buffer
\* is empty, the texts the handler received, in invocation order, are the
\* fragments in arrival order, none twice and none missing.
C22_ExactlyOnceWhenNotSerialized ==
    (on_flush = "handler" /\ buffer_size >= 1 /\ ~failed
        /\ running = <<>> /\ _buffer = <<>>) =>
        Concat(calls) = Concat(TextsOf(AddsOf(trace)))

\* C9: a TokenBuffer with threshold < 1 or an encoder with tone_duration_ms
\* <= 0 is refused at construction, so no add or flush runs on such a buffer
\* and no encode runs in such an encoder.
C9_NoOperationOnInvalidConfig ==
    /\ (trace # <<>>) => buffer_size >= 1
    /\ (calls # <<>> /\ on_flush = "on_buffer_flush") => tone_duration_ms > 0

\* The tones of the frames of the handler invocations so far, in invocation
\* and array order.
FrameTones(k) == encode(encoder, calls[k], tone_duration_ms).tones
TonesOfFlushes == Concat([k \in DOMAIN calls |-> FrameTones(k)])
IsPrefix(a, b) == Len(a) <= Len(b) /\ SubSeq(b, 1, Len(a)) = a

\* C20: in the streaming pipeline the tones are rendered in array order
\* within a frame and the frames in flush order; every tone of a flush is
\* rendered to completion before a tone of the next flush starts and before
\* the next fragment is added to the buffer.
C20_TonesRenderedInFlushOrder ==
    /\ []( on_flush = "on_buffer_flush" =>
              /\ IsPrefix(rendered, TonesOfFlushes)
              /\ (running # <<>>) =>
                    rendered \o running[Len(running)].tones = TonesOfFlushes
              /\ (running = <<>> /\ ~failed) => rendered = TonesOfFlushes )
    /\ [][ (on_flush = "on_buffer_flush"
              /\ (AddCalled \/ FlushCalled \/ Len(calls') > Len(calls))) =>
                 rendered = TonesOfFlushes ]_vars
    /\ [][ (rendered' # rendered) =>
              /\ running # <<>> /\ running[1].tones # <<>>
              /\ rendered' = Append(rendered, Head(running[1].tones))
              /\ UNCHANGED << calls, trace, _buffer >> ]_vars

\* C20 witness: a DTMF pipeline with threshold 1 ended after the flushes of
\* "H" and of "i" + U+0100; the seven tones were rendered in that order.
C20_Witness ==
    /\ on_flush = "on_buffer_flush" /\ pc = "done" /\ encoder = "dtmf"
    /\ calls = << <<72>>, <<105, 256>> >>
    /\ Len(rendered) = 7
    /\ rendered = FrameTones(1) \o FrameTones(2)
    /\ FrameTones(1) # <<>> /\ FrameTones(2) # <<>>

\* ------------------------------------------------ claims on the encoders

DTMF_LOW_SET  == { Hz(697), Hz(770), Hz(852), Hz(941) }
DTMF_HIGH_SET == { Hz(1209), Hz(1336), Hz(1477), Hz(1633) }

\* C10: for every text T, of any code points, DTMFEncoder.encode(T) returns
\* exactly 2 * len(T) tone events, each with exactly 2 frequencies, the first
\* from the low set and the second from the high set, and original_text = T.
C10_DTMFTwoTonesPerCharacter ==
    (encoder = "dtmf" /\ frame.returned) =>
        /\ Len(frame.tones) = 2 * Len(text)
        /\ \A k \in DOMAIN frame.tones :
              /\ Len(frame.tones[k].frequencies) = 2
              /\ frame.tones[k].frequencies[1] \in DTMF_LOW_SET
              /\ frame.tones[k].frequencies[2] \in DTMF_HIGH_SET
        /\ frame.original_text = text

\* C11: DTMFEncoder.encode of a text with a character above U+00FF fails the
\* whole call: no frame is returned for such a text.
C11_DTMFRejectsAbove255 ==
    (encoder = "dtmf" /\ \E k \in DOMAIN text : text[k] > 255)
        => ~frame.returned

\* The classic keypad, by hex digit value 0..15 (entry v + 1): row and column
\* frequency in Hz of the key the digit stands for (0-9 themselves, then
\* A, B, C, D, *, #).
KeypadTone ==
    << << 941, 1336 >>, << 697, 1209 >>, << 697, 1336 >>, << 697, 1477 >>,
       << 770, 1209 >>, << 770, 1336 >>, << 770, 1477 >>, << 852, 1209 >>,
       << 852, 1336 >>, << 852, 1477 >>, << 697, 1633 >>, << 770, 1633 >>,
       << 852, 1633 >>, << 941, 1633 >>, << 941, 1209 >>, << 941, 1477 >> >>

KeypadFrequencies(v) == << Hz(KeypadTone[v + 1][1]), Hz(KeypadTone[v + 1][2]) >>

\* C12: for code points 0..255 DTMFEncoder emits the tone of the
\* most-significant hex digit and then that of the least-significant one, each
\* the [row, column] pair of the digit's key on the classic 4x4 keypad;
\* 'H' (0x48) gives [770, 1209] then [852, 1336].
C12_DTMFHighNibbleFirstKeypad ==
    ( /\ encoder = "dtmf" /\ frame.returned
      /\ \A k \in DOMAIN text : text[k] <= 255 ) =>
        /\ Len(frame.tones) = 2 * Len(text)
        /\ \A k \in DOMAIN text :
              /\ frame.tones[2 * k - 1].frequencies
                     = KeypadFrequencies(text[k] \div 16)
              /\ frame.tones[2 * k].frequencies
                     = KeypadFrequencies(text[k] % 16)
        /\ (text = << 72 >>) =>
              /\ frame.tones[1].frequencies = << Hz(770), Hz(1209) >>
              /\ frame.tones[2].frequencies = << Hz(852), Hz(1336) >>

\* C12 witness: "H" was encoded into the tones of the keys 4 and 8.
C12_Witness ==
    /\ encoder = "dtmf" /\ frame.returned /\ text = << 72 >>
    /\ Len(frame.tones) = 2
    /\ frame.tones[1].frequencies = << Hz(770), Hz(1209) >>
    /\ frame.tones[2].frequencies = << Hz(852), Hz(1336) >>

SingleTone == encoder \in {"fsk", "ultrasonic"}
BandMin == IF encoder = "fsk" THEN 400 ELSE 15000
BandMax == IF encoder = "fsk" THEN 2000 ELSE 20000

\* C13: for every text T, code points above 255 included, the FSK and the
\* ultrasonic encoder return exactly len(T) tone events, each with exactly one
\* frequency inside the closed band of the variant, and original_text = T.
C13_SingleToneCountAndBand ==
    (SingleTone /\ frame.returned) =>
        /\ Len(frame.tones) = Len(text)
        /\ \A k \in DOMAIN frame.tones :
              /\ Len(frame.tones[k].frequencies) = 1
              /\ frame.tones[k].frequencies[1] >= Hz(BandMin)
              /\ frame.tones[k].frequencies[1] <= Hz(BandMax)
        /\ frame.original_text = text

\* C13 witness: the ultrasonic encoder returned two tones for a text of two
\* characters above U+00FF.
C13_Witness ==
    /\ encoder = "ultrasonic" /\ frame.returned
    /\ text = << 256, 1114111 >>
    /\ Len(frame.tones) = 2

\* C14: for code points a < b <= 255 the single-tone frequency of a is strictly
\* below that of b, for the FSK and for the ultrasonic encoder: whenever one
\* encoder encodes the character a and next the character b.
C14_SingleToneStrictlyIncreasing ==
    [][ ( /\ SingleTone /\ frame.returned /\ frame'.returned
          /\ Len(text) = 1 /\ Len(text') = 1
          /\ text[1] < text'[1] /\ text'[1] <= 255 ) =>
            frame.tones[1].frequencies[1] < frame'.tones[1].frequencies[1] ]_vars

\* C14 witness: code point 254 was encoded to a frequency strictly inside the
\* ultrasonic band (above that of 0, below that of 255).
C14_Witness ==
    /\ encoder = "ultrasonic" /\ frame.returned /\ text = << 254 >>
    /\ frame.tones[1].frequencies[1] > Hz(15000)
    /\ frame.tones[1].frequencies[1] < Hz(20000)

\* C15: the single-tone frequency is min + (clamp(code, 0, 255) / 255) *
\* (max - min): code point 0 gives exactly the band minimum, 255 exactly the
\* band maximum, and every code point above 255 the same as 255, not an error.
C15_SingleToneLinearClamped ==
    (SingleTone /\ frame.returned) =>
        /\ Len(frame.tones) = Len(text)
        /\ \A k \in DOMAIN text :
              LET c == IF text[k] > 255 THEN 255 ELSE text[k]
                  f == frame.tones[k].frequencies[1]
              IN  /\ f = 255 * BandMin + c * (BandMax - BandMin)
                  /\ (text[k] = 0) => f = Hz(BandMin)
                  /\ (text[k] >= 255) => f = Hz(BandMax)

\* C15 witness: the FSK encoder mapped NUL to 400 Hz and U+10FFFF to 2000 Hz.
C15_Witness ==
    /\ encoder = "fsk" /\ frame.returned /\ text = << 0, 1114111 >>
    /\ frame.tones[1].frequencies = << Hz(400) >>
    /\ frame.tones[2].frequencies = << Hz(2000) >>

\* C16: UltrasonicEncoder.theoretical_speed_bps is (1000 / tone_duration_ms) * 8
\* for every positive duration, 1600 for 5 ms and 8000 for 1 ms; reading it
\* changes neither the encoder nor the tones it emits.
C16_TheoreticalSpeed ==
    /\ []( (bps.read /\ tone_duration_ms > 0) =>
              /\ ~bps.raised
              /\ bps.den # 0
              /\ bps.num * tone_duration_ms = 1000 * 8 * bps.den
              /\ (tone_duration_ms = 5) => bps.num = 1600 * bps.den
              /\ (tone_duration_ms = 1) => bps.num = 8000 * bps.den )
    /\ []( (bps.read /\ frame.returned) =>
              /\ Len(frame.tones) = Len(text)
              /\ \A k \in DOMAIN text :
                    /\ frame.tones[k].duration_ms = tone_duration_ms
                    /\ frame.tones[k].frequencies =
                          << 255 * 15000
                             + (IF text[k] > 255 THEN 255 ELSE text[k]) * 5000 >> )
    /\ [][ (bps' # bps) =>
              UNCHANGED << encoder, tone_duration_ms, text, frame >> ]_vars

\* C16 witness: a 5 ms ultrasonic encoder reported 1600 bits per second and
\* encoded a text afterwards or before.
C16_Witness ==
    /\ encoder = "ultrasonic" /\ tone_duration_ms = 5
    /\ bps.read /\ bps.num = 1600 * bps.den
    /\ frame.returned /\ text = << 72 >>

\* The tone list the constructed encoder returns for the text T.
TonesFor(T) == encode(encoder, T, tone_duration_ms).tones

\* C21: every encoder processes the characters independently and in input
\* order: the tone list of encode(T1 + T2) is that of encode(T1) followed by
\* that of encode(T2) for every split of the text, every tone carries the
\* configured tone_duration_ms, and encode leaves tone_duration_ms unchanged.
C21_EncodeIsConcatenative ==
    /\ []( frame.returned =>
              /\ frame.original_text = text
              /\ \A j \in 0..Len(text) :
                    frame.tones = TonesFor(SubSeq(text, 1, j))
                                     \o TonesFor(SubSeq(text, j + 1, Len(text)))
              /\ \A k \in DOMAIN frame.tones :
                    frame.tones[k].duration_ms = tone_duration_ms )
    /\ [][ (frame' # frame \/ text' # text) =>
              UNCHANGED << encoder, tone_duration_ms >> ]_vars

\* C21 witness: a 5 ms FSK encoder returned for "H" + U+20AC the tone of "H"
\* followed by the tone of the second character, both of 5 ms.
C21_Witness ==
    /\ encoder = "fsk" /\ tone_duration_ms = 5
    /\ frame.returned /\ text = << 72, 8364 >>
    /\ frame.tones = TonesFor(<< 72 >>) \o TonesFor(<< 8364 >>)
    /\ Len(frame.tones) = 2
    /\ frame.tones[1] # frame.tones[2]

\* ---------------------------------------------- claims on generate_tone

\* Python's round(a / b) for a >= 0, b > 0: the nearest integer, a tie going
\* to the even neighbour.
RoundHalfEven(a, b) ==
    LET q == a \div b
        r == a % b
    IN  IF 2 * r > b THEN q + 1
        ELSE IF 2 * r < b THEN q
        ELSE IF q % 2 = 0 THEN q ELSE q + 1

\* The number of samples of the returned buffer.
SampleCount == Len(samples.gain)

\* Sample k of the returned buffer is zero whatever the sine evaluates to: its
\* gain is zero, or no sine is summed, or every summed sine is taken at a
\* whole number of half periods (2 * f * t[k] is an integer).
SampleIsZero(k) ==
    \/ samples.gain[k].num = 0
    \/ samples.sines = <<>>
    \/ \A i \in DOMAIN samples.sines :
          (2 * samples.sines[i] * samples.t[k].num)
              % (FreqUnit * samples.t[k].den) = 0

\* Sample k is left unscaled by the envelope.
SampleUnscaled(k) == samples.gain[k].num = samples.gain[k].den

\* The fade length: the number of samples in 10 ms at the call's sample rate.
FadeLength == (tone_args.sample_rate * 10) \div 1000

\* C17: for a positive duration and sample rate the returned buffer has
\* round(sample_rate * duration_ms / 1000) samples, the nearest integer to
\* the exact count and not its truncation.
C17_SampleCountRounded ==
    (samples.returned /\ tone_args.duration_ms > 0
                      /\ tone_args.sample_rate > 0) =>
        SampleCount = RoundHalfEven(tone_args.sample_rate
                                      * tone_args.duration_ms, 1000)

C19_EmptyFrequenciesGiveZeros ==
    (tone_args.frequencies = <<>> /\ tone_args.sample_rate > 0
                                  /\ tone_args.duration_ms >= 0) =>
        /\ samples.returned /\ ~samples.raised
        /\ SampleCount = (tone_args.sample_rate * tone_args.duration_ms)
                            \div 1000
        /\ Len(samples.t) = SampleCount
        /\ samples.divisor # 0
        /\ \A k \in 1..SampleCount :
              samples.sines = <<>> /\ samples.gain[k].den # 0

\* C19 witness: an enveloped buffer of 926 zeros was returned for the empty
\* list (21 ms at 44100 Hz).
C19_Witness ==
    /\ tone_args.frequencies = <<>>
    /\ tone_args.sample_rate = 44100 /\ tone_args.duration_ms = 21
    /\ samples.returned /\ samples.enveloped
    /\ SampleCount = 926 /\ samples.sines = <<>>

\* C23: the time assigned to sample index i is exactly i / sample_rate for
\* every i in 0..sample_count-1, so that a requested frequency is synthesized
\* unscaled.
C23_SampleTimeIsIndexOverRate ==
    (samples.returned /\ tone_args.sample_rate > 0
                      /\ tone_args.frequencies # <<>>) =>
        \A k \in DOMAIN samples.t :
            samples.t[k].num * tone_args.sample_rate
                = (k - 1) * samples.t[k].den

====
